---- MODULE Spec2Model ----
(***************************************************************************)
(* The shenstack project generator as a state machine.                     *)
(*                                                                         *)
(* The repository holds three versions of the generator script:            *)
(*   "index"     src/index.ts            (prompts; api/ and app/ split)    *)
(*   "part_002"  src/unnamed/part_002    (prompts; single root install)    *)
(*   "part_003"  src/unnamed/part_003    (@inquirer/prompts; auth choice)  *)
(* One run executes one of them.  A step of the model is one statement (or *)
(* one run of synchronous statements) of the script; pc names the next     *)
(* step.  External commands and filesystem calls succeed or throw.         *)
(***************************************************************************)
EXTENDS Integers, Sequences, FiniteSets, TLC

VARIABLES
    variant,         \* which script runs
    pc,              \* next step of the script, or "Done" / "Failed" / "Cancelled"
    projectName,     \* the project name answer (sequence of characters)
    nameAnswered,    \* TRUE once the project-name prompt returned a value
    authOption,      \* "unset" | "diy" | "betterauth" | "clerk"
    useRedis,        \* truthiness of the Redis answer (undefined is falsy)
    useSentry,       \* truthiness of the Sentry answer (undefined is falsy)
    cancelledAt,     \* prompt at which the user cancelled, or "none"
    validationError, \* last message returned by validate, or "none"
    cwdEntries,      \* names existing in the directory the tool was started in
    created,         \* project directories created during the run
    dirs,            \* directories existing inside the project directory
    files,           \* project files: path -> content
    written,         \* what the tool itself wrote: path -> content
    cmds,            \* external commands invoked, in order, with their cwd
    cwd,             \* process working directory: "start", ".", "api", "app"
    gitHistory,      \* "none" | "template" | "fresh"
    exited,          \* the process has ended
    exitCode,        \* its exit status (meaningful once exited)
    stderr,          \* what was printed to standard error
    stdout,          \* what the report / cancel message printed
    err              \* the error that was thrown, or "none"

optVars == <<projectName, nameAnswered, authOption, useRedis, useSentry>>
promptVars == <<cancelledAt, validationError>>
fsVars == <<cwdEntries, created, dirs, files, written>>
endVars == <<exited, exitCode, stderr, err>>
vars == <<variant, pc, optVars, promptVars, fsVars, cmds, cwd, gitHistory,
          endVars, stdout>>

-----------------------------------------------------------------------------
(* Bounds of the model *)

\* longest project name the user types, beyond the named examples
MaxNameLen == 2

-----------------------------------------------------------------------------
(* Project names *)

Lower == {"a","b","c","d","e","f","g","h","i","j","k","l","m",
          "n","o","p","q","r","s","t","u","v","w","x","y","z"}
Upper == {"A","B","C","D","E","F","G","H","I","J","K","L","M",
          "N","O","P","Q","R","S","T","U","V","W","X","Y","Z"}
Digit == {"0","1","2","3","4","5","6","7","8","9"}

\* the character class of /^[a-zA-Z0-9-_]+$/
NameChars == Lower \cup Upper \cup Digit \cup {"-", "_"}

\* the characters the modelled user types
TypedChars == {"a", "_", " ", "/"}

NameEvil == <<".", ".", "/", "e", "v", "i", "l">>
NameWithSpaces == <<"n","a","m","e"," ","w","i","t","h"," ","s","p","a","c","e","s">>
NameMyApp1 == <<"m", "y", "-", "a", "p", "p", "_", "1">>
NameDemo == <<"d", "e", "m", "o">>

\* initial: "my-shenstack-app"
IndexInitialName ==
    <<"m","y","-","s","h","e","n","s","t","a","c","k","-","a","p","p">>
\* initial: "my-shenstack-app"
Part002InitialName ==
    <<"m","y","-","s","h","e","n","s","t","a","c","k","-","a","p","p">>
\* default: "shenstack-app"
DefaultName == <<"s","h","e","n","s","t","a","c","k","-","a","p","p">>

\* what the user may type at the project-name prompt
TypedNames ==
    UNION {[1..n -> TypedChars] : n \in 0..MaxNameLen}
        \cup {NameEvil, NameWithSpaces, NameMyApp1, NameDemo}

\* names that may already exist in the starting directory
ExistingCandidates == {NameDemo}

\* a text prompt submits its initial/default value when the input is empty
Submit(text, initial) == IF text = <<>> THEN initial ELSE text

\* /^[a-zA-Z0-9-_]+$/.test(input)
MatchesNameRegex(input) ==
    /\ Len(input) >= 1
    /\ \A i \in 1..Len(input) : input[i] \in NameChars

\* the validate callback of the project-name input: "ok" or the message
validate(input) ==
    IF ~MatchesNameRegex(input) THEN "charset"
    ELSE IF input \in cwdEntries THEN "exists"
    ELSE "ok"

-----------------------------------------------------------------------------
(* Filesystem of the project directory *)

Parent(p) ==
    CASE p = "api" -> "."
      [] p = "app" -> "."
      [] p = "api/src" -> "api"
      [] p = "api/src/lib" -> "api/src"
      [] p = "api/lib" -> "api"
      [] p = "app/src" -> "app"
      [] p = "app/src/lib" -> "app/src"
      [] p = "api/src/lib/redis.ts" -> "api/src/lib"
      [] p = "api/src/lib/sentry.ts" -> "api/src/lib"
      [] p = "app/src/lib/sentry.ts" -> "app/src/lib"
      [] p = "api/lib/redis.ts" -> "api/lib"
      [] p = "api/lib/sentry.ts" -> "api/lib"
      [] p = "api/.env.example" -> "api"
      [] p = "app/.env.example" -> "app"
      [] OTHER -> "."

RECURSIVE Ancestors(_)
Ancestors(p) == IF p = "." THEN {"."} ELSE {p} \cup Ancestors(Parent(p))

\* fs.mkdirSync(p, { recursive: true })
MkdirRecursive(d, p) == d \cup Ancestors(p)

\* a write succeeds only if the parent directory exists (ENOENT otherwise)
CanWrite(p) == Parent(p) \in dirs

Put(f, p, content) ==
    [q \in DOMAIN f \cup {p} |-> IF q = p THEN content ELSE f[q]]

ContentOf(f, p) == IF p \in DOMAIN f THEN f[p] ELSE <<>>

NoFiles == [q \in {} |-> <<>>]

\* fs.writeFileSync(p, content)
FsWrite(p, content) ==
    /\ files' = Put(files, p, content)
    /\ written' = Put(written, p, content)

\* fs.appendFileSync(p, content)
FsAppend(p, content) ==
    /\ files' = Put(files, p, ContentOf(files, p) \o content)
    /\ written' = Put(written, p, ContentOf(written, p) \o content)

RangeOf(s) == {s[i] : i \in 1..Len(s)}

-----------------------------------------------------------------------------
(* The fetched template *)

TemplateDirs == {"api", "app", "api/src", "api/src/lib", "api/lib"}

\* the layouts the fetched template may have: a parent-closed set of
\* directories, with or without environment templates of its own
TemplateLayouts ==
    {l \in [dirs : SUBSET TemplateDirs, env : BOOLEAN] :
        \A d \in l.dirs : Parent(d) \in l.dirs \cup {"."}}

TemplateEnvContent == <<"DATABASE_URL">>

TemplateFiles(l) ==
    LET envs == IF l.env
                THEN {".env.example"}
                       \cup (IF "api" \in l.dirs THEN {"api/.env.example"} ELSE {})
                       \cup (IF "app" \in l.dirs THEN {"app/.env.example"} ELSE {})
                ELSE {}
    IN  [p \in envs |-> TemplateEnvContent]

-----------------------------------------------------------------------------
(* File contents the scripts write, as the sequence of names they hold *)

\* api/src/lib/redis.ts of index.ts
redisConfig == <<"ioredis", "REDIS_HOST", "REDIS_PORT">>
\* api/src/lib/sentry.ts of index.ts
sentryConfigApi == <<"@sentry/bun", "SENTRY_DSN">>
\* app/src/lib/sentry.ts of index.ts
sentryConfigApp == <<"@sentry/react", "NEXT_PUBLIC_SENTRY_DSN">>
\* api/lib/redis.ts of part_002
redisConfig002 == <<"ioredis", "REDIS_HOST", "REDIS_PORT">>
\* api/lib/sentry.ts of part_002
sentryConfig002 == <<"@sentry/bun", "SENTRY_DSN">>

\* the two auth branches exchanged
envContentAuthSwapped(auth, redis, sentry) ==
    <<"NODE_ENV", "DATABASE_URL">>
      \o (IF auth = "clerk" THEN <<"BETTER_AUTH_API_KEY">>
          ELSE IF auth = "betterauth"
               THEN <<"NEXT_PUBLIC_CLERK_PUBLISHABLE_KEY", "CLERK_SECRET_KEY">>
               ELSE <<>>)
      \o (IF redis THEN <<"REDIS_URL">> ELSE <<>>)
      \o (IF sentry THEN <<"NEXT_PUBLIC_SENTRY_DSN">> ELSE <<>>)

\* the Sentry block appended without looking at useSentry
envContentSentryAlways(auth, redis, sentry) ==
    <<"NODE_ENV", "DATABASE_URL">>
      \o (IF auth = "betterauth" THEN <<"BETTER_AUTH_API_KEY">>
          ELSE IF auth = "clerk"
               THEN <<"NEXT_PUBLIC_CLERK_PUBLISHABLE_KEY", "CLERK_SECRET_KEY">>
               ELSE <<>>)
      \o (IF redis THEN <<"REDIS_URL">> ELSE <<>>)
      \o <<"NEXT_PUBLIC_SENTRY_DSN">>

\* envContent of createEnvFile: the keys of the environment file, in order
envContent(auth, redis, sentry) ==
    <<"NODE_ENV", "DATABASE_URL">>
      \o (IF auth = "betterauth" THEN <<"BETTER_AUTH_API_KEY">>
          ELSE IF auth = "clerk"
               THEN <<"NEXT_PUBLIC_CLERK_PUBLISHABLE_KEY", "CLERK_SECRET_KEY">>
               ELSE <<>>)
      \o (IF redis THEN <<"REDIS_URL">> ELSE <<>>)
      \o (IF sentry THEN <<"NEXT_PUBLIC_SENTRY_DSN">> ELSE <<>>)

\* Functions of part_003 that no statement of the script calls, as the paths
\* they write.
setupFileStructure == {"src/app/page.tsx"}
createReadme == {"README.md"}
setupDrizzle == {"drizzle.config.ts", "src/lib/db/schema.ts",
                 "src/lib/db/index.ts", "src/lib/db/operations.ts"}
setupZustand == {"src/store/appStore.ts"}
setupElysia == {"src/app/api/hello/route.ts", "src/lib/elysia.ts",
                "src/app/api/users/route.ts", "src/app/api/users/[id]/route.ts"}

-----------------------------------------------------------------------------
(* Control flow: the steps of each script in source order, and the condition
   under which the script executes each *)

IndexSteps ==
    <<"mkdir_project", "clone", "rm_git", "git_init",
      "api_install", "api_add_redis", "api_add_sentry",
      "app_install", "app_add_sentry", "chdir_root",
      "write_redis", "append_redis_env",
      "mkdir_lib", "write_sentry_api", "write_sentry_app",
      "append_sentry_env_api", "append_sentry_env_app", "report">>

IndexGuard(s) ==
    CASE s = "api_install" -> "api" \in dirs
      [] s = "api_add_redis" -> "api" \in dirs /\ useRedis
      [] s = "api_add_sentry" -> "api" \in dirs /\ useSentry
      [] s = "app_install" -> "app" \in dirs
      [] s = "app_add_sentry" -> "app" \in dirs /\ useSentry
      [] s \in {"write_redis", "append_redis_env"} -> useRedis
      [] s \in {"mkdir_lib", "write_sentry_api", "write_sentry_app",
                "append_sentry_env_api", "append_sentry_env_app"} -> useSentry
      [] OTHER -> TRUE

Part002Steps ==
    <<"mkdir_project", "clone", "rm_git", "git_init", "install",
      "add_redis", "write_redis", "append_redis_env",
      "add_sentry", "write_sentry", "append_sentry_env", "report">>

Part002Guard(s) ==
    CASE s \in {"add_redis", "write_redis", "append_redis_env"} -> useRedis
      [] s \in {"add_sentry", "write_sentry", "append_sentry_env"} -> useSentry
      [] OTHER -> TRUE

Part003Steps ==
    <<"clone", "rm_git", "git_init", "install",
      "add_clerk", "add_betterauth", "add_redis",
      "add_sentry", "sentry_wizard", "create_env", "report">>

\* the better-auth branch taken for every provider other than diy
Part003GuardAuthAny(s) ==
    CASE s = "add_clerk" -> authOption # "diy" /\ authOption = "clerk"
      [] s = "add_betterauth" -> authOption # "diy"
      [] s = "add_redis" -> useRedis
      [] s \in {"add_sentry", "sentry_wizard"} -> useSentry
      [] OTHER -> TRUE

Part003Guard(s) ==
    CASE s = "add_clerk" -> authOption # "diy" /\ authOption = "clerk"
      [] s = "add_betterauth" ->
            authOption # "diy" /\ authOption # "clerk" /\ authOption = "betterauth"
      [] s = "add_redis" -> useRedis
      [] s \in {"add_sentry", "sentry_wizard"} -> useSentry
      [] OTHER -> TRUE

Steps ==
    CASE variant = "index" -> IndexSteps
      [] variant = "part_002" -> Part002Steps
      [] variant = "part_003" -> Part003Steps

Guard(s) ==
    CASE variant = "index" -> IndexGuard(s)
      [] variant = "part_002" -> Part002Guard(s)
      [] variant = "part_003" -> Part003Guard(s)

Min(S) == CHOOSE x \in S : \A y \in S : x <= y

\* the first step after position i that the script executes
StepAfter(i) ==
    LET later == {j \in (i + 1)..Len(Steps) : Guard(Steps[j])}
    IN  IF later = {} THEN "Done" ELSE Steps[Min(later)]

\* the step that follows the current one
NextPc == StepAfter(CHOOSE i \in 1..Len(Steps) : Steps[i] = pc)

\* the first step once the options are collected
FirstPc == StepAfter(0)

Goto(p) == pc' = p /\ UNCHANGED endVars

\* await $`...`: the command is invoked in the current working directory
Shell(cmd, dir) == cmds' = Append(cmds, [cmd |-> cmd, cwd |-> dir])

\* process.exit(1) after printing the error to standard error
ExitWithError(e) ==
    /\ pc' = "Failed"
    /\ err' = e
    /\ stderr' = Append(stderr, e)
    /\ exited' = TRUE
    /\ exitCode' = 1

\* the error is printed but the script goes on with the next step
mainCatchSwallowed(e) ==
    /\ pc' = NextPc
    /\ err' = e
    /\ stderr' = Append(stderr, e)
    /\ UNCHANGED <<exited, exitCode>>

\* main().catch of index.ts
mainCatch(e) == ExitWithError(e)

\* main().catch of part_002
main002Catch(e) == ExitWithError(e)

\* the catch block of createProject
createProjectCatch(e) == ExitWithError(e)

\* main().catch(console.error) of part_003: the error is printed and the
\* process ends normally
mainCatchConsoleError(e) ==
    /\ err' = e
    /\ stderr' = Append(stderr, e)
    /\ exited' = TRUE
    /\ exitCode' = 0

-----------------------------------------------------------------------------
Init ==
    /\ variant \in {"index", "part_002", "part_003"}
    /\ pc = "ask_name"
    /\ projectName = <<>>
    /\ nameAnswered = FALSE
    /\ authOption = "unset"
    /\ useRedis = FALSE
    /\ useSentry = FALSE
    /\ cancelledAt = "none"
    /\ validationError = "none"
    /\ cwdEntries \in SUBSET ExistingCandidates
    /\ created = {}
    /\ dirs = {}
    /\ files = NoFiles
    /\ written = NoFiles
    /\ cmds = <<>>
    /\ cwd = "start"
    /\ gitHistory = "none"
    /\ exited = FALSE
    /\ exitCode = 0
    /\ stderr = <<>>
    /\ stdout = <<>>
    /\ err = "none"

-----------------------------------------------------------------------------
(* src/index.ts *)

\* the text prompt of prompts([...])
main_askProjectName ==
    /\ variant = "index" /\ pc = "ask_name"
    /\ \E t \in TypedNames : projectName' = Submit(t, IndexInitialName)
    /\ nameAnswered' = TRUE
    /\ pc' = "ask_redis"
    /\ UNCHANGED <<variant, authOption, useRedis, useSentry, promptVars, fsVars,
                   cmds, cwd, gitHistory, endVars, stdout>>

main_askUseRedis ==
    /\ variant = "index" /\ pc = "ask_redis"
    /\ useRedis' \in BOOLEAN
    /\ pc' = "ask_sentry"
    /\ UNCHANGED <<variant, projectName, nameAnswered, authOption, useSentry,
                   promptVars, fsVars, cmds, cwd, gitHistory, endVars, stdout>>

main_askUseSentry ==
    /\ variant = "index" /\ pc = "ask_sentry"
    /\ useSentry' \in BOOLEAN
    /\ pc' = "check_cancelled"
    /\ UNCHANGED <<variant, projectName, nameAnswered, authOption, useRedis,
                   promptVars, fsVars, cmds, cwd, gitHistory, endVars, stdout>>

\* the user cancels a prompt: prompts() stops asking and resolves with the
\* answers collected so far
main_promptsCancelled ==
    /\ variant = "index" /\ pc \in {"ask_name", "ask_redis", "ask_sentry"}
    /\ cancelledAt' = pc
    /\ pc' = "check_cancelled"
    /\ UNCHANGED <<variant, optVars, validationError, fsVars, cmds, cwd,
                   gitHistory, endVars, stdout>>

\* if (!questions.projectName) { ...; process.exit(1) }
main_checkCancelled ==
    /\ variant = "index" /\ pc = "check_cancelled"
    /\ IF ~nameAnswered \/ projectName = <<>>
       THEN /\ stdout' = Append(stdout, "Setup cancelled")
            /\ pc' = "Cancelled"
            /\ exited' = TRUE
            /\ exitCode' = 1
            /\ UNCHANGED <<stderr, err>>
       ELSE /\ pc' = FirstPc
            /\ UNCHANGED <<stdout, endVars>>
    /\ UNCHANGED <<variant, optVars, promptVars, fsVars, cmds, cwd, gitHistory>>

\* fs.mkdirSync(projectDir, { recursive: true }); process.chdir(projectDir)
main_mkdirProject ==
    /\ variant = "index" /\ pc = "mkdir_project"
    /\ \/ /\ created' = created \cup ({projectName} \ cwdEntries)
          /\ dirs' = {"."}
          /\ cwd' = "."
          /\ Goto(NextPc)
       \/ /\ mainCatch("mkdir_project")
          /\ UNCHANGED <<created, dirs, cwd>>
    /\ UNCHANGED <<variant, optVars, promptVars, cwdEntries, files, written,
                   cmds, gitHistory, stdout>>

\* a failed clone that removes the project directory again
main_cloneWithCleanup ==
    /\ variant = "index" /\ pc = "clone"
    /\ Shell("git clone", cwd)
    /\ \/ /\ \E l \in TemplateLayouts :
                /\ dirs' = dirs \cup l.dirs
                /\ files' = TemplateFiles(l)
          /\ gitHistory' = "template"
          /\ Goto(NextPc)
          /\ UNCHANGED created
       \/ /\ mainCatch("clone")
          /\ created' = {}
          /\ dirs' = {}
          /\ UNCHANGED <<files, gitHistory>>
    /\ UNCHANGED <<variant, optVars, promptVars, cwdEntries, written,
                   cwd, stdout>>

\* await $`git clone https://github.com/heywinit/create-shenstack-app.git .`
main_clone ==
    /\ variant = "index" /\ pc = "clone"
    /\ Shell("git clone", cwd)
    /\ \/ /\ \E l \in TemplateLayouts :
                /\ dirs' = dirs \cup l.dirs
                /\ files' = TemplateFiles(l)
          /\ gitHistory' = "template"
          /\ Goto(NextPc)
       \/ /\ mainCatch("clone")
          /\ UNCHANGED <<dirs, files, gitHistory>>
    /\ UNCHANGED <<variant, optVars, promptVars, cwdEntries, created, written,
                   cwd, stdout>>

\* the history removal leaving the template's history in place
main_rmGitSkipped ==
    /\ variant = "index" /\ pc = "rm_git"
    /\ Shell("rm -rf .git", cwd)
    /\ \/ UNCHANGED gitHistory /\ Goto(NextPc)
       \/ mainCatch("rm_git") /\ UNCHANGED gitHistory
    /\ UNCHANGED <<variant, optVars, promptVars, fsVars, cwd, stdout>>

\* await $`rm -rf .git`
main_rmGit ==
    /\ variant = "index" /\ pc = "rm_git"
    /\ Shell("rm -rf .git", cwd)
    /\ \/ gitHistory' = "none" /\ Goto(NextPc)
       \/ mainCatch("rm_git") /\ UNCHANGED gitHistory
    /\ UNCHANGED <<variant, optVars, promptVars, fsVars, cwd, stdout>>

\* await $`git init`
main_gitInit ==
    /\ variant = "index" /\ pc = "git_init"
    /\ Shell("git init", cwd)
    /\ \/ gitHistory' = "fresh" /\ Goto(NextPc)
       \/ mainCatch("git_init") /\ UNCHANGED gitHistory
    /\ UNCHANGED <<variant, optVars, promptVars, fsVars, cwd, stdout>>

\* a failed base install of api/ that is tried a second time before giving up
main_apiInstallRetried ==
    /\ variant = "index" /\ pc = "api_install"
    /\ cwd' = "api"
    /\ \/ /\ Shell("bun install", "api")
          /\ Goto(NextPc)
       \/ /\ cmds' = cmds \o <<[cmd |-> "bun install", cwd |-> "api"],
                               [cmd |-> "bun install", cwd |-> "api"]>>
          /\ mainCatch("api_install")
    /\ UNCHANGED <<variant, optVars, promptVars, fsVars, gitHistory, stdout>>

\* process.chdir(path.join(projectDir, "api")); await $`bun install`
main_apiInstall ==
    /\ variant = "index" /\ pc = "api_install"
    /\ cwd' = "api"
    /\ Shell("bun install", "api")
    /\ Goto(NextPc) \/ mainCatch("api_install")
    /\ UNCHANGED <<variant, optVars, promptVars, fsVars, gitHistory, stdout>>

\* await $`bun add ioredis`
main_apiAddRedis ==
    /\ variant = "index" /\ pc = "api_add_redis"
    /\ Shell("bun add ioredis", cwd)
    /\ Goto(NextPc) \/ mainCatch("api_add_redis")
    /\ UNCHANGED <<variant, optVars, promptVars, fsVars, cwd, gitHistory, stdout>>

\* await $`bun add @sentry/node @sentry/bun`
main_apiAddSentry ==
    /\ variant = "index" /\ pc = "api_add_sentry"
    /\ Shell("bun add @sentry/node @sentry/bun", cwd)
    /\ Goto(NextPc) \/ mainCatch("api_add_sentry")
    /\ UNCHANGED <<variant, optVars, promptVars, fsVars, cwd, gitHistory, stdout>>

\* process.chdir(path.join(projectDir, "app")); await $`bun install`
main_appInstall ==
    /\ variant = "index" /\ pc = "app_install"
    /\ cwd' = "app"
    /\ Shell("bun install", "app")
    /\ Goto(NextPc) \/ mainCatch("app_install")
    /\ UNCHANGED <<variant, optVars, promptVars, fsVars, gitHistory, stdout>>

\* await $`bun add @sentry/react`
main_appAddSentry ==
    /\ variant = "index" /\ pc = "app_add_sentry"
    /\ Shell("bun add @sentry/react", cwd)
    /\ Goto(NextPc) \/ mainCatch("app_add_sentry")
    /\ UNCHANGED <<variant, optVars, promptVars, fsVars, cwd, gitHistory, stdout>>

\* the working directory left where the last install put it
main_chdirRootSkipped ==
    /\ variant = "index" /\ pc = "chdir_root"
    /\ UNCHANGED cwd
    /\ Goto(NextPc)
    /\ UNCHANGED <<variant, optVars, promptVars, fsVars, cmds, gitHistory, stdout>>

\* process.chdir(projectDir)
main_chdirRoot ==
    /\ variant = "index" /\ pc = "chdir_root"
    /\ cwd' = "."
    /\ Goto(NextPc)
    /\ UNCHANGED <<variant, optVars, promptVars, fsVars, cmds, gitHistory, stdout>>

\* fs.writeFileSync(path.join(projectDir, "api/src/lib/redis.ts"), redisConfig)
main_writeRedis ==
    /\ variant = "index" /\ pc = "write_redis"
    /\ \/ /\ CanWrite("api/src/lib/redis.ts")
          /\ FsWrite("api/src/lib/redis.ts", redisConfig)
          /\ Goto(NextPc)
       \/ /\ mainCatch("write_redis")
          /\ UNCHANGED <<files, written>>
    /\ UNCHANGED <<variant, optVars, promptVars, cwdEntries, created, dirs,
                   cmds, cwd, gitHistory, stdout>>

\* the Redis keys appended only to an environment template that already exists
main_appendRedisEnvIfExists ==
    /\ variant = "index" /\ pc = "append_redis_env"
    /\ \/ /\ CanWrite("api/.env.example")
          /\ IF "api/.env.example" \in DOMAIN files
             THEN FsAppend("api/.env.example", <<"REDIS_HOST", "REDIS_PORT">>)
             ELSE UNCHANGED <<files, written>>
          /\ Goto(NextPc)
       \/ /\ mainCatch("append_redis_env")
          /\ UNCHANGED <<files, written>>
    /\ UNCHANGED <<variant, optVars, promptVars, cwdEntries, created, dirs,
                   cmds, cwd, gitHistory, stdout>>

\* fs.appendFileSync(path.join(projectDir, "api/.env.example"), ...)
main_appendRedisEnv ==
    /\ variant = "index" /\ pc = "append_redis_env"
    /\ \/ /\ CanWrite("api/.env.example")
          /\ FsAppend("api/.env.example", <<"REDIS_HOST", "REDIS_PORT">>)
          /\ Goto(NextPc)
       \/ /\ mainCatch("append_redis_env")
          /\ UNCHANGED <<files, written>>
    /\ UNCHANGED <<variant, optVars, promptVars, cwdEntries, created, dirs,
                   cmds, cwd, gitHistory, stdout>>

\* fs.mkdirSync(".../api/src/lib", { recursive: true });
\* fs.mkdirSync(".../app/src/lib", { recursive: true })
main_mkdirLib ==
    /\ variant = "index" /\ pc = "mkdir_lib"
    /\ \/ /\ dirs' = MkdirRecursive(MkdirRecursive(dirs, "api/src/lib"),
                                    "app/src/lib")
          /\ Goto(NextPc)
       \/ /\ dirs' = MkdirRecursive(dirs, "api/src/lib")
          /\ mainCatch("mkdir_lib")
       \/ /\ UNCHANGED dirs
          /\ mainCatch("mkdir_lib")
    /\ UNCHANGED <<variant, optVars, promptVars, cwdEntries, created, files,
                   written, cmds, cwd, gitHistory, stdout>>

\* fs.writeFileSync(path.join(projectDir, "api/src/lib/sentry.ts"), ...)
main_writeSentryApi ==
    /\ variant = "index" /\ pc = "write_sentry_api"
    /\ \/ /\ CanWrite("api/src/lib/sentry.ts")
          /\ FsWrite("api/src/lib/sentry.ts", sentryConfigApi)
          /\ Goto(NextPc)
       \/ /\ mainCatch("write_sentry_api")
          /\ UNCHANGED <<files, written>>
    /\ UNCHANGED <<variant, optVars, promptVars, cwdEntries, created, dirs,
                   cmds, cwd, gitHistory, stdout>>

\* fs.writeFileSync(path.join(projectDir, "app/src/lib/sentry.ts"), ...)
main_writeSentryApp ==
    /\ variant = "index" /\ pc = "write_sentry_app"
    /\ \/ /\ CanWrite("app/src/lib/sentry.ts")
          /\ FsWrite("app/src/lib/sentry.ts", sentryConfigApp)
          /\ Goto(NextPc)
       \/ /\ mainCatch("write_sentry_app")
          /\ UNCHANGED <<files, written>>
    /\ UNCHANGED <<variant, optVars, promptVars, cwdEntries, created, dirs,
                   cmds, cwd, gitHistory, stdout>>

\* fs.appendFileSync(path.join(projectDir, "api/.env.example"), ...SENTRY_DSN)
main_appendSentryEnvApi ==
    /\ variant = "index" /\ pc = "append_sentry_env_api"
    /\ \/ /\ CanWrite("api/.env.example")
          /\ FsAppend("api/.env.example", <<"SENTRY_DSN">>)
          /\ Goto(NextPc)
       \/ /\ mainCatch("append_sentry_env_api")
          /\ UNCHANGED <<files, written>>
    /\ UNCHANGED <<variant, optVars, promptVars, cwdEntries, created, dirs,
                   cmds, cwd, gitHistory, stdout>>

\* fs.appendFileSync(path.join(projectDir, "app/.env.example"), ...)
main_appendSentryEnvApp ==
    /\ variant = "index" /\ pc = "append_sentry_env_app"
    /\ \/ /\ CanWrite("app/.env.example")
          /\ FsAppend("app/.env.example", <<"NEXT_PUBLIC_SENTRY_DSN">>)
          /\ Goto(NextPc)
       \/ /\ mainCatch("append_sentry_env_app")
          /\ UNCHANGED <<files, written>>
    /\ UNCHANGED <<variant, optVars, promptVars, cwdEntries, created, dirs,
                   cmds, cwd, gitHistory, stdout>>

\* the completion message with the Redis reminder printed unconditionally
main_reportRedisAlways ==
    /\ variant = "index" /\ pc = "report"
    /\ stdout' = stdout \o <<"Project setup complete", "Redis setup">>
                   \o (IF useSentry THEN <<"Sentry setup">> ELSE <<>>)
    /\ pc' = "Done"
    /\ exited' = TRUE
    /\ exitCode' = 0
    /\ UNCHANGED <<variant, optVars, promptVars, fsVars, cmds, cwd, gitHistory,
                   stderr, err>>

\* the completion message; main() resolves and the process ends with status 0
main_report ==
    /\ variant = "index" /\ pc = "report"
    /\ stdout' = stdout \o <<"Project setup complete">>
                   \o (IF useRedis THEN <<"Redis setup">> ELSE <<>>)
                   \o (IF useSentry THEN <<"Sentry setup">> ELSE <<>>)
    /\ pc' = "Done"
    /\ exited' = TRUE
    /\ exitCode' = 0
    /\ UNCHANGED <<variant, optVars, promptVars, fsVars, cmds, cwd, gitHistory,
                   stderr, err>>

IndexNext ==
    \/ main_askProjectName \/ main_askUseRedis \/ main_askUseSentry
    \/ main_promptsCancelled \/ main_checkCancelled
    \/ main_mkdirProject \/ main_clone \/ main_rmGit \/ main_gitInit
    \/ main_apiInstall \/ main_apiAddRedis \/ main_apiAddSentry
    \/ main_appInstall \/ main_appAddSentry \/ main_chdirRoot
    \/ main_writeRedis \/ main_appendRedisEnv \/ main_mkdirLib
    \/ main_writeSentryApi \/ main_writeSentryApp
    \/ main_appendSentryEnvApi \/ main_appendSentryEnvApp \/ main_report

-----------------------------------------------------------------------------
(* src/unnamed/part_002 *)

main002_askProjectName ==
    /\ variant = "part_002" /\ pc = "ask_name"
    /\ \E t \in TypedNames : projectName' = Submit(t, Part002InitialName)
    /\ nameAnswered' = TRUE
    /\ pc' = "ask_redis"
    /\ UNCHANGED <<variant, authOption, useRedis, useSentry, promptVars, fsVars,
                   cmds, cwd, gitHistory, endVars, stdout>>

main002_askUseRedis ==
    /\ variant = "part_002" /\ pc = "ask_redis"
    /\ useRedis' \in BOOLEAN
    /\ pc' = "ask_sentry"
    /\ UNCHANGED <<variant, projectName, nameAnswered, authOption, useSentry,
                   promptVars, fsVars, cmds, cwd, gitHistory, endVars, stdout>>

main002_askUseSentry ==
    /\ variant = "part_002" /\ pc = "ask_sentry"
    /\ useSentry' \in BOOLEAN
    /\ pc' = FirstPc
    /\ UNCHANGED <<variant, projectName, nameAnswered, authOption, useRedis,
                   promptVars, fsVars, cmds, cwd, gitHistory, endVars, stdout>>

\* the user cancels a prompt: prompts() resolves with the answers so far and
\* the script goes on without looking at them
main002_promptsCancelled ==
    /\ variant = "part_002" /\ pc \in {"ask_name", "ask_redis", "ask_sentry"}
    /\ cancelledAt' = pc
    /\ pc' = FirstPc
    /\ UNCHANGED <<variant, optVars, validationError, fsVars, cmds, cwd,
                   gitHistory, endVars, stdout>>

\* path.join(process.cwd(), projectName) throws a TypeError when projectName
\* is undefined; otherwise mkdirSync and chdir
main002_mkdirProject ==
    /\ variant = "part_002" /\ pc = "mkdir_project"
    /\ \/ /\ ~nameAnswered
          /\ main002Catch("TypeError")
          /\ UNCHANGED <<created, dirs, cwd>>
       \/ /\ nameAnswered
          /\ created' = created \cup ({projectName} \ cwdEntries)
          /\ dirs' = {"."}
          /\ cwd' = "."
          /\ Goto(NextPc)
       \/ /\ nameAnswered
          /\ main002Catch("mkdir_project")
          /\ UNCHANGED <<created, dirs, cwd>>
    /\ UNCHANGED <<variant, optVars, promptVars, cwdEntries, files, written,
                   cmds, gitHistory, stdout>>

\* await $`git clone https://github.com/yourusername/create-shenstack-app.git .`
main002_clone ==
    /\ variant = "part_002" /\ pc = "clone"
    /\ Shell("git clone", cwd)
    /\ \/ /\ \E l \in TemplateLayouts :
                /\ dirs' = dirs \cup l.dirs
                /\ files' = TemplateFiles(l)
          /\ gitHistory' = "template"
          /\ Goto(NextPc)
       \/ /\ main002Catch("clone")
          /\ UNCHANGED <<dirs, files, gitHistory>>
    /\ UNCHANGED <<variant, optVars, promptVars, cwdEntries, created, written,
                   cwd, stdout>>

main002_rmGit ==
    /\ variant = "part_002" /\ pc = "rm_git"
    /\ Shell("rm -rf .git", cwd)
    /\ \/ gitHistory' = "none" /\ Goto(NextPc)
       \/ main002Catch("rm_git") /\ UNCHANGED gitHistory
    /\ UNCHANGED <<variant, optVars, promptVars, fsVars, cwd, stdout>>

main002_gitInit ==
    /\ variant = "part_002" /\ pc = "git_init"
    /\ Shell("git init", cwd)
    /\ \/ gitHistory' = "fresh" /\ Goto(NextPc)
       \/ main002Catch("git_init") /\ UNCHANGED gitHistory
    /\ UNCHANGED <<variant, optVars, promptVars, fsVars, cwd, stdout>>

\* await $`bun install`
main002_install ==
    /\ variant = "part_002" /\ pc = "install"
    /\ Shell("bun install", cwd)
    /\ Goto(NextPc) \/ main002Catch("install")
    /\ UNCHANGED <<variant, optVars, promptVars, fsVars, cwd, gitHistory, stdout>>

\* await $`bun add ioredis`
main002_addRedis ==
    /\ variant = "part_002" /\ pc = "add_redis"
    /\ Shell("bun add ioredis", cwd)
    /\ Goto(NextPc) \/ main002Catch("add_redis")
    /\ UNCHANGED <<variant, optVars, promptVars, fsVars, cwd, gitHistory, stdout>>

\* fs.writeFileSync(path.join(projectDir, "api/lib/redis.ts"), redisConfig)
main002_writeRedis ==
    /\ variant = "part_002" /\ pc = "write_redis"
    /\ \/ /\ CanWrite("api/lib/redis.ts")
          /\ FsWrite("api/lib/redis.ts", redisConfig002)
          /\ Goto(NextPc)
       \/ /\ main002Catch("write_redis")
          /\ UNCHANGED <<files, written>>
    /\ UNCHANGED <<variant, optVars, promptVars, cwdEntries, created, dirs,
                   cmds, cwd, gitHistory, stdout>>

\* fs.appendFileSync(path.join(projectDir, ".env.example"), ...)
main002_appendRedisEnv ==
    /\ variant = "part_002" /\ pc = "append_redis_env"
    /\ \/ /\ CanWrite(".env.example")
          /\ FsAppend(".env.example", <<"REDIS_HOST", "REDIS_PORT">>)
          /\ Goto(NextPc)
       \/ /\ main002Catch("append_redis_env")
          /\ UNCHANGED <<files, written>>
    /\ UNCHANGED <<variant, optVars, promptVars, cwdEntries, created, dirs,
                   cmds, cwd, gitHistory, stdout>>

\* await $`bun add @sentry/node @sentry/bun`
main002_addSentry ==
    /\ variant = "part_002" /\ pc = "add_sentry"
    /\ Shell("bun add @sentry/node @sentry/bun", cwd)
    /\ Goto(NextPc) \/ main002Catch("add_sentry")
    /\ UNCHANGED <<variant, optVars, promptVars, fsVars, cwd, gitHistory, stdout>>

\* fs.writeFileSync(path.join(projectDir, "api/lib/sentry.ts"), sentryConfig)
main002_writeSentry ==
    /\ variant = "part_002" /\ pc = "write_sentry"
    /\ \/ /\ CanWrite("api/lib/sentry.ts")
          /\ FsWrite("api/lib/sentry.ts", sentryConfig002)
          /\ Goto(NextPc)
       \/ /\ main002Catch("write_sentry")
          /\ UNCHANGED <<files, written>>
    /\ UNCHANGED <<variant, optVars, promptVars, cwdEntries, created, dirs,
                   cmds, cwd, gitHistory, stdout>>

\* fs.appendFileSync(path.join(projectDir, ".env.example"), ...SENTRY_DSN)
main002_appendSentryEnv ==
    /\ variant = "part_002" /\ pc = "append_sentry_env"
    /\ \/ /\ CanWrite(".env.example")
          /\ FsAppend(".env.example", <<"SENTRY_DSN">>)
          /\ Goto(NextPc)
       \/ /\ main002Catch("append_sentry_env")
          /\ UNCHANGED <<files, written>>
    /\ UNCHANGED <<variant, optVars, promptVars, cwdEntries, created, dirs,
                   cmds, cwd, gitHistory, stdout>>

main002_report ==
    /\ variant = "part_002" /\ pc = "report"
    /\ stdout' = stdout \o <<"Project setup complete">>
                   \o (IF useRedis THEN <<"Redis setup">> ELSE <<>>)
                   \o (IF useSentry THEN <<"Sentry setup">> ELSE <<>>)
    /\ pc' = "Done"
    /\ exited' = TRUE
    /\ exitCode' = 0
    /\ UNCHANGED <<variant, optVars, promptVars, fsVars, cmds, cwd, gitHistory,
                   stderr, err>>

Part002Next ==
    \/ main002_askProjectName \/ main002_askUseRedis \/ main002_askUseSentry
    \/ main002_promptsCancelled \/ main002_mkdirProject \/ main002_clone
    \/ main002_rmGit \/ main002_gitInit \/ main002_install
    \/ main002_addRedis \/ main002_writeRedis \/ main002_appendRedisEnv
    \/ main002_addSentry \/ main002_writeSentry \/ main002_appendSentryEnv
    \/ main002_report

-----------------------------------------------------------------------------
(* src/unnamed/part_003 *)

\* input({ default: "shenstack-app", validate }): a rejected value shows the
\* message and asks again
\* a rejected name treated as fatal instead of asked for again
promptForOptions_projectNameAborts ==
    /\ variant = "part_003" /\ pc = "ask_name"
    /\ \E t \in TypedNames :
          LET answer == Submit(t, DefaultName)
              v == validate(answer)
          IN  IF v = "ok"
              THEN /\ projectName' = answer
                   /\ nameAnswered' = TRUE
                   /\ validationError' = "none"
                   /\ pc' = "ask_auth"
              ELSE /\ validationError' = v
                   /\ pc' = "Failed"
                   /\ UNCHANGED <<projectName, nameAnswered>>
    /\ UNCHANGED <<variant, authOption, useRedis, useSentry, cancelledAt,
                   fsVars, cmds, cwd, gitHistory, endVars, stdout>>

promptForOptions_projectName ==
    /\ variant = "part_003" /\ pc = "ask_name"
    /\ \E t \in TypedNames :
          LET answer == Submit(t, DefaultName)
              v == validate(answer)
          IN  IF v = "ok"
              THEN /\ projectName' = answer
                   /\ nameAnswered' = TRUE
                   /\ validationError' = "none"
                   /\ pc' = "ask_auth"
              ELSE /\ validationError' = v
                   /\ UNCHANGED <<projectName, nameAnswered, pc>>
    /\ UNCHANGED <<variant, authOption, useRedis, useSentry, cancelledAt,
                   fsVars, cmds, cwd, gitHistory, endVars, stdout>>

promptForOptions_authOption ==
    /\ variant = "part_003" /\ pc = "ask_auth"
    /\ authOption' \in {"diy", "betterauth", "clerk"}
    /\ pc' = "ask_redis"
    /\ UNCHANGED <<variant, projectName, nameAnswered, useRedis, useSentry,
                   promptVars, fsVars, cmds, cwd, gitHistory, endVars, stdout>>

promptForOptions_useRedis ==
    /\ variant = "part_003" /\ pc = "ask_redis"
    /\ useRedis' \in BOOLEAN
    /\ pc' = "ask_sentry"
    /\ UNCHANGED <<variant, projectName, nameAnswered, authOption, useSentry,
                   promptVars, fsVars, cmds, cwd, gitHistory, endVars, stdout>>

promptForOptions_useSentry ==
    /\ variant = "part_003" /\ pc = "ask_sentry"
    /\ useSentry' \in BOOLEAN
    /\ pc' = FirstPc
    /\ UNCHANGED <<variant, projectName, nameAnswered, authOption, useRedis,
                   promptVars, fsVars, cmds, cwd, gitHistory, endVars, stdout>>

\* the user cancels a prompt: the prompt's promise rejects, promptForOptions
\* and main reject, and main().catch(console.error) handles the error
promptForOptions_cancelled ==
    /\ variant = "part_003"
    /\ pc \in {"ask_name", "ask_auth", "ask_redis", "ask_sentry"}
    /\ cancelledAt' = pc
    /\ pc' = "Cancelled"
    /\ mainCatchConsoleError("ExitPromptError")
    /\ UNCHANGED <<variant, optVars, validationError, fsVars, cmds, cwd,
                   gitHistory, stdout>>

\* await $`git clone --depth 1 ... ${projectName}`
createProject_clone ==
    /\ variant = "part_003" /\ pc = "clone"
    /\ Shell("git clone", cwd)
    /\ \/ /\ \E l \in TemplateLayouts :
                /\ dirs' = {"."} \cup l.dirs
                /\ files' = TemplateFiles(l)
          /\ created' = created \cup {projectName}
          /\ gitHistory' = "template"
          /\ Goto(NextPc)
       \/ /\ createProjectCatch("clone")
          /\ UNCHANGED <<dirs, files, created, gitHistory>>
    /\ UNCHANGED <<variant, optVars, promptVars, cwdEntries, written, cwd,
                   stdout>>

\* process.chdir(projectName); fs.rmSync(".git", { recursive: true, force: true })
createProject_rmGit ==
    /\ variant = "part_003" /\ pc = "rm_git"
    /\ cwd' = "."
    /\ \/ gitHistory' = "none" /\ Goto(NextPc)
       \/ createProjectCatch("rm_git") /\ UNCHANGED gitHistory
    /\ UNCHANGED <<variant, optVars, promptVars, fsVars, cmds, stdout>>

\* await $`git init`
createProject_gitInit ==
    /\ variant = "part_003" /\ pc = "git_init"
    /\ Shell("git init", cwd)
    /\ \/ gitHistory' = "fresh" /\ Goto(NextPc)
       \/ createProjectCatch("git_init") /\ UNCHANGED gitHistory
    /\ UNCHANGED <<variant, optVars, promptVars, fsVars, cwd, stdout>>

\* await $`bun install`
createProject_install ==
    /\ variant = "part_003" /\ pc = "install"
    /\ Shell("bun install", cwd)
    /\ Goto(NextPc) \/ createProjectCatch("install")
    /\ UNCHANGED <<variant, optVars, promptVars, fsVars, cwd, gitHistory, stdout>>

\* await $`bun add @clerk/nextjs`
createProject_addClerk ==
    /\ variant = "part_003" /\ pc = "add_clerk"
    /\ Shell("bun add @clerk/nextjs", cwd)
    /\ Goto(NextPc) \/ createProjectCatch("add_clerk")
    /\ UNCHANGED <<variant, optVars, promptVars, fsVars, cwd, gitHistory, stdout>>

\* await $`bun add better-auth`
createProject_addBetterAuth ==
    /\ variant = "part_003" /\ pc = "add_betterauth"
    /\ Shell("bun add better-auth", cwd)
    /\ Goto(NextPc) \/ createProjectCatch("add_betterauth")
    /\ UNCHANGED <<variant, optVars, promptVars, fsVars, cwd, gitHistory, stdout>>

\* await $`bun add ioredis`
createProject_addRedis ==
    /\ variant = "part_003" /\ pc = "add_redis"
    /\ Shell("bun add ioredis", cwd)
    /\ Goto(NextPc) \/ createProjectCatch("add_redis")
    /\ UNCHANGED <<variant, optVars, promptVars, fsVars, cwd, gitHistory, stdout>>

\* await $`bun add @sentry/nextjs`
createProject_addSentry ==
    /\ variant = "part_003" /\ pc = "add_sentry"
    /\ Shell("bun add @sentry/nextjs", cwd)
    /\ Goto(NextPc) \/ createProjectCatch("add_sentry")
    /\ UNCHANGED <<variant, optVars, promptVars, fsVars, cwd, gitHistory, stdout>>

\* await $`bunx @sentry/wizard@latest -i nextjs`
createProject_sentryWizard ==
    /\ variant = "part_003" /\ pc = "sentry_wizard"
    /\ Shell("bunx @sentry/wizard@latest -i nextjs", cwd)
    /\ Goto(NextPc) \/ createProjectCatch("sentry_wizard")
    /\ UNCHANGED <<variant, optVars, promptVars, fsVars, cwd, gitHistory, stdout>>

\* createEnvFile(options): .env.example and .env.local get the same content
createEnvFile ==
    /\ variant = "part_003" /\ pc = "create_env"
    /\ LET content == envContent(authOption, useRedis, useSentry)
       IN  \/ /\ files' = Put(Put(files, ".env.example", content),
                              ".env.local", content)
              /\ written' = Put(Put(written, ".env.example", content),
                                ".env.local", content)
              /\ Goto(NextPc)
           \/ /\ FsWrite(".env.example", content)
              /\ createProjectCatch("create_env")
           \/ /\ UNCHANGED <<files, written>>
              /\ createProjectCatch("create_env")
    /\ UNCHANGED <<variant, optVars, promptVars, cwdEntries, created, dirs,
                   cmds, cwd, gitHistory, stdout>>

\* a report that goes back to writing the environment files
printSuccessMessageLoops ==
    /\ variant = "part_003" /\ pc = "report"
    /\ pc' = "create_env"
    /\ UNCHANGED <<variant, optVars, promptVars, fsVars, cmds, cwd, gitHistory,
                   endVars, stdout>>

\* printSuccessMessage(options); createProject and main return and the process
\* ends with status 0
printSuccessMessage ==
    /\ variant = "part_003" /\ pc = "report"
    /\ stdout' = stdout \o <<"SHENSTACK project created successfully",
                             "Authentication: " \o authOption>>
                   \o (IF useRedis THEN <<"Redis cache integration">> ELSE <<>>)
                   \o (IF useSentry THEN <<"Sentry error tracking">> ELSE <<>>)
    /\ pc' = "Done"
    /\ exited' = TRUE
    /\ exitCode' = 0
    /\ UNCHANGED <<variant, optVars, promptVars, fsVars, cmds, cwd, gitHistory,
                   stderr, err>>

Part003Next ==
    \/ promptForOptions_projectName \/ promptForOptions_authOption
    \/ promptForOptions_useRedis \/ promptForOptions_useSentry
    \/ promptForOptions_cancelled
    \/ createProject_clone \/ createProject_rmGit \/ createProject_gitInit
    \/ createProject_install \/ createProject_addClerk
    \/ createProject_addBetterAuth \/ createProject_addRedis
    \/ createProject_addSentry \/ createProject_sentryWizard
    \/ createEnvFile \/ printSuccessMessage

-----------------------------------------------------------------------------
Next == IndexNext \/ Part002Next \/ Part003Next

Spec == Init /\ [][Next]_vars

\* a run of src/index.ts
InitIndex == Init /\ variant = "index"
SpecIndex == InitIndex /\ [][IndexNext]_vars

\* a run in which the process keeps executing while it has a statement to
\* execute, every external command returns, and the name prompt is eventually
\* given an accepted value (or cancelled)
NameAccepted == promptForOptions_projectName /\ pc' = "ask_auth"
SpecLive == Spec /\ WF_vars(Next) /\ WF_vars(NameAccepted)

\* a run of src/unnamed/part_002
InitPart002 == Init /\ variant = "part_002"
SpecPart002 == InitPart002 /\ [][Part002Next]_vars

\* a run of src/unnamed/part_003
InitPart003 == Init /\ variant = "part_003"
SpecPart003 == InitPart003 /\ [][Part003Next]_vars

-----------------------------------------------------------------------------
(* Vocabulary of the properties *)

InstallCommands ==
    {"bun install", "bun add ioredis", "bun add @sentry/node @sentry/bun",
     "bun add @sentry/react", "bun add @clerk/nextjs", "bun add better-auth",
     "bun add @sentry/nextjs", "bunx @sentry/wizard@latest -i nextjs"}

Invoked == {cmds[i].cmd : i \in 1..Len(cmds)}

\* nothing was created, run or written
NoMutation ==
    /\ created = {}
    /\ cmds = <<>>
    /\ written = NoFiles

EnvPaths == {".env.example", ".env.local", "api/.env.example", "app/.env.example"}
ClerkKeys == {"NEXT_PUBLIC_CLERK_PUBLISHABLE_KEY", "CLERK_SECRET_KEY"}
BetterAuthKeys == {"BETTER_AUTH_API_KEY"}
RedisKeys == {"REDIS_URL", "REDIS_HOST", "REDIS_PORT"}
SentryKeys == {"SENTRY_DSN", "NEXT_PUBLIC_SENTRY_DSN"}

\* the environment templates the tool wrote or appended to
WrittenEnvs == EnvPaths \cap DOMAIN written

\* the files the specification says every run writes, at the paths the
\* functions of part_003 give them
AlwaysWrittenFiles ==
    {".env.example", ".env.local"} \cup setupFileStructure
        \cup {"src/lib/db/schema.ts", "src/lib/db/index.ts"}
        \cup setupZustand
        \cup {"src/app/api/hello/route.ts", "src/app/api/users/route.ts",
              "src/app/api/users/[id]/route.ts"}

RedisModulePaths ==
    {"api/src/lib/redis.ts", "api/lib/redis.ts", "src/lib/redis.ts"}

\* what a completed run of each script writes and appends, by path, for the
\* answers given
ExpectedWritten ==
    LET redisEnv == IF useRedis THEN <<"REDIS_HOST", "REDIS_PORT">> ELSE <<>>
        sentryEnv == IF useSentry THEN <<"SENTRY_DSN">> ELSE <<>>
        on(b, f) == IF b THEN f ELSE NoFiles
    IN  CASE variant = "index" ->
                on(useRedis, "api/src/lib/redis.ts" :> redisConfig)
                  @@ on(useSentry,
                        "api/src/lib/sentry.ts" :> sentryConfigApi
                          @@ "app/src/lib/sentry.ts" :> sentryConfigApp
                          @@ "app/.env.example" :> <<"NEXT_PUBLIC_SENTRY_DSN">>)
                  @@ on(useRedis \/ useSentry,
                        "api/.env.example" :> (redisEnv \o sentryEnv))
          [] variant = "part_002" ->
                on(useRedis, "api/lib/redis.ts" :> redisConfig002)
                  @@ on(useSentry, "api/lib/sentry.ts" :> sentryConfig002)
                  @@ on(useRedis \/ useSentry,
                        ".env.example" :> (redisEnv \o sentryEnv))
          [] OTHER ->
                ".env.example" :> envContent(authOption, useRedis, useSentry)
                  @@ ".env.local" :> envContent(authOption, useRedis, useSentry)

IsPrefix(a, b) == Len(a) <= Len(b) /\ a = SubSeq(b, 1, Len(a))

\* the steps that write or append a file, and the path each one writes
WriteSteps ==
    {"write_redis", "append_redis_env", "write_sentry_api", "write_sentry_app",
     "append_sentry_env_api", "append_sentry_env_app", "write_sentry",
     "append_sentry_env", "create_env"}

WriteTarget(s) ==
    CASE variant = "index" /\ s = "write_redis" -> "api/src/lib/redis.ts"
      [] variant = "index" /\ s = "append_redis_env" -> "api/.env.example"
      [] s = "write_sentry_api" -> "api/src/lib/sentry.ts"
      [] s = "write_sentry_app" -> "app/src/lib/sentry.ts"
      [] s = "append_sentry_env_api" -> "api/.env.example"
      [] s = "append_sentry_env_app" -> "app/.env.example"
      [] variant = "part_002" /\ s = "write_redis" -> "api/lib/redis.ts"
      [] s = "write_sentry" -> "api/lib/sentry.ts"
      [] OTHER -> ".env.example"

\* the monitoring-init modules of the backend and of the frontend
SentryBackendPaths == {"api/src/lib/sentry.ts", "api/lib/sentry.ts"}
SentryFrontendPaths == {"app/src/lib/sentry.ts"}

\* the steps that invoke the package manager
InstallSteps ==
    {"api_install", "api_add_redis", "api_add_sentry", "app_install",
     "app_add_sentry", "install", "add_clerk", "add_betterauth", "add_redis",
     "add_sentry", "sentry_wizard"}

\* the run is past every package-manager invocation the script makes: no
\* install step lies ahead, other than one the answers have switched off
InstallsCompleted ==
    \/ pc = "Done"
    \/ /\ pc \in RangeOf(Steps)
       /\ \A j \in 1..Len(Steps) :
             (j >= (CHOOSE i \in 1..Len(Steps) : Steps[i] = pc)
                 /\ Steps[j] \in InstallSteps)
                => /\ Steps[j] \notin {"install", "api_install", "app_install"}
                   /\ Steps[j] \in {"add_redis", "api_add_redis"} => ~useRedis
                   /\ Steps[j] \in {"add_sentry", "sentry_wizard",
                                     "api_add_sentry", "app_add_sentry"}
                         => ~useSentry
                   /\ Steps[j] = "add_clerk" => authOption # "clerk"
                   /\ Steps[j] = "add_betterauth" => authOption # "betterauth"

\* the commands that add the monitoring package
SentryInstallCommands ==
    {"bun add @sentry/node @sentry/bun", "bun add @sentry/react",
     "bun add @sentry/nextjs"}

\* how often a command was invoked, anywhere / in a working directory
CountCmd(c) == Cardinality({i \in 1..Len(cmds) : cmds[i].cmd = c})
CountCmdIn(c, d) ==
    Cardinality({i \in 1..Len(cmds) : cmds[i].cmd = c /\ cmds[i].cwd = d})

\* position of the first invocation of a command (0 if it never ran)
FirstCmd(c) ==
    IF c \in Invoked
    THEN Min({i \in 1..Len(cmds) : cmds[i].cmd = c})
    ELSE 0

\* the working directory each install command of each script is meant for
InstallCwds(c) ==
    IF variant # "index" THEN {"."}
    ELSE CASE c = "bun install" -> {"api", "app"}
           [] c \in {"bun add ioredis", "bun add @sentry/node @sentry/bun"}
                -> {"api"}
           [] c = "bun add @sentry/react" -> {"app"}
           [] OTHER -> {}

\* the feature lines of the completion message
RedisReminders == {"Redis setup", "Redis cache integration"}
SentryReminders == {"Sentry setup", "Sentry error tracking"}

\* the run is in, or has been in, the Installing stage
ReachedInstalling == pc \in InstallSteps \/ Invoked \cap InstallCommands # {}

-----------------------------------------------------------------------------
(* C1: if the user cancels at any one of the prompts, no directory is
   created, no command is invoked and no file is written in that run. *)
C1_CancelMutatesNothing ==
    cancelledAt # "none" => NoMutation

(* C2: the pipeline leaves the Option Collector only with a non-empty project
   name made of [A-Za-z0-9_-]; "../evil", "" and "name with spaces" never
   lead to a directory creation or a clone. *)
C2_OnlyValidNamesLeaveCollector ==
    ~NoMutation =>
        /\ MatchesNameRegex(projectName)
        /\ projectName \notin {NameEvil, <<>>, NameWithSpaces}

(* C3: if an entry named projectName already exists in the working directory
   when the name is entered, nothing is cloned, installed, created or
   written for that name and the entry's contents are untouched. *)
C3_ExistingEntryUntouched ==
    (nameAnswered /\ projectName \in cwdEntries)
        => /\ NoMutation
           /\ dirs \subseteq {"."}
           /\ files = NoFiles

(* C4: when a stage fails the pipeline is in Failed in the very step of the
   failure, Failed is terminal (no step follows it), and after a failed fetch
   no install command was invoked and no file was written. *)
C4_FailureAbortsLaterStages ==
    /\ [](err \notin {"none", "ExitPromptError"} => pc = "Failed")
    /\ [](err = "clone" =>
            /\ Invoked \cap InstallCommands = {}
            /\ written = NoFiles
            /\ cmds[Len(cmds)].cmd = "git clone")
    /\ [][pc = "Failed" => UNCHANGED vars]_vars
    /\ [][(err = "none" /\ err' \notin {"none", "ExitPromptError"})
            => /\ pc' = "Failed"
               /\ Len(cmds') <= Len(cmds) + 1]_vars

C4_Witness ==
    /\ pc = "Failed"
    /\ err = "clone"
    /\ created # {}
    /\ useRedis /\ useSentry

(* C5: the exit code is 0 exactly when the run reached Done; a run in which a
   stage failed ends with a non-zero exit code with the error on standard
   error. *)
C5_ExitCodeZeroIffDone ==
    exited =>
        /\ (exitCode = 0) <=> (pc = "Done")
        /\ err # "none" => (exitCode # 0 /\ stderr # <<>>)

(* C6: for valid options, a run that reaches Done has written all of the
   always-written files, and the base environment template holds
   DATABASE_URL and NODE_ENV. *)
C6_AlwaysWrittenAtDone ==
    (pc = "Done" /\ MatchesNameRegex(projectName))
        => /\ AlwaysWrittenFiles \subseteq DOMAIN written
           /\ {"DATABASE_URL", "NODE_ENV"} \subseteq RangeOf(written[".env.example"])

(* C7: with {projectName: "demo", authProvider: diy, useRedis: false,
   useSentry: false} a run that reaches Done wrote exactly the always-written
   files, no Redis, Sentry or auth-provider file, and exits with 0. *)
C7_DemoWritesExactlyAlwaysWritten ==
    (/\ pc = "Done"
     /\ projectName = NameDemo
     /\ authOption = "diy"
     /\ ~useRedis /\ ~useSentry)
        => /\ DOMAIN written = AlwaysWrittenFiles
           /\ exited /\ exitCode = 0

(* C8: at Done every environment template the tool wrote contains both Clerk
   keys iff the auth provider is clerk and the BetterAuth key iff it is
   betterauth (so neither for diy); the generator with the auth choice has
   written its environment template. *)
C8_AuthKeysFollowProvider ==
    pc = "Done" =>
        /\ variant = "part_003" => {".env.example", ".env.local"} \subseteq WrittenEnvs
        /\ \A p \in WrittenEnvs :
              LET keys == RangeOf(files[p])
              IN  /\ (ClerkKeys \subseteq keys) <=> (authOption = "clerk")
                  /\ (ClerkKeys \cap keys # {}) <=> (authOption = "clerk")
                  /\ (BetterAuthKeys \subseteq keys) <=> (authOption = "betterauth")

C8_Witness ==
    /\ pc = "Done"
    /\ authOption = "clerk"
    /\ ".env.example" \in DOMAIN files
    /\ ClerkKeys \subseteq RangeOf(files[".env.example"])
    /\ BetterAuthKeys \cap RangeOf(files[".env.example"]) = {}

(* C9: the keys the tool writes to an environment template include a Redis
   key only if useRedis and a Sentry key only if useSentry; with
   useRedis = true, useSentry = false and no auth provider, at Done an
   environment template has REDIS_URL or REDIS_HOST and REDIS_PORT, and no
   written template has a Sentry, Clerk or BetterAuth key. *)
C9_NoKeyOfDisabledFeature ==
    /\ \A p \in WrittenEnvs :
          /\ RedisKeys \cap RangeOf(written[p]) # {} => useRedis
          /\ SentryKeys \cap RangeOf(written[p]) # {} => useSentry
    /\ (pc = "Done" /\ useRedis /\ ~useSentry /\ authOption \in {"diy", "unset"})
          => /\ \E p \in WrittenEnvs :
                   \/ "REDIS_URL" \in RangeOf(files[p])
                   \/ {"REDIS_HOST", "REDIS_PORT"} \subseteq RangeOf(files[p])
             /\ \A p \in WrittenEnvs :
                   RangeOf(written[p])
                       \cap (SentryKeys \cup ClerkKeys \cup BetterAuthKeys) = {}

C9_Witness ==
    /\ pc = "Done"
    /\ useRedis /\ ~useSentry /\ authOption = "diy"
    /\ ".env.example" \in DOMAIN written
    /\ "REDIS_URL" \in RangeOf(written[".env.example"])

(* C10: whenever useRedis is true and the run reaches Done, a Redis client
   module was written at its fixed path and the Redis keys were added to the
   environment template. *)
C10_RedisModuleAndKeysAtDone ==
    (pc = "Done" /\ useRedis)
        => /\ RedisModulePaths \cap DOMAIN written # {}
           /\ \E p \in WrittenEnvs : RedisKeys \cap RangeOf(written[p]) # {}

(* C11: whenever useSentry is true and the run reaches Done, the DSN key is
   in an environment template the tool wrote and, for each of api/ and app/
   that exists, a monitoring-init module was written under it and the DSN key
   was added to its own environment template (SENTRY_DSN for the backend,
   the public variant for the frontend). *)
C11_SentryModulePerSubproject ==
    (pc = "Done" /\ useSentry)
        => /\ \E p \in WrittenEnvs : SentryKeys \cap RangeOf(written[p]) # {}
           /\ "api" \in dirs =>
                 /\ SentryBackendPaths \cap DOMAIN written # {}
                 /\ "api/.env.example" \in WrittenEnvs
                 /\ "SENTRY_DSN" \in RangeOf(written["api/.env.example"])
           /\ "app" \in dirs =>
                 /\ SentryFrontendPaths \cap DOMAIN written # {}
                 /\ "app/.env.example" \in WrittenEnvs
                 /\ "NEXT_PUBLIC_SENTRY_DSN" \in RangeOf(written["app/.env.example"])

(* C12: the auth package install follows authProvider alone: once the
   installs are completed the Clerk package was added exactly once iff the
   provider is clerk, the BetterAuth package exactly once iff it is
   betterauth, none for diy; the two are never both added in one run. *)
C12_AuthInstallFollowsProvider ==
    /\ CountCmd("bun add @clerk/nextjs") >= 1 => authOption = "clerk"
    /\ CountCmd("bun add better-auth") >= 1 => authOption = "betterauth"
    /\ CountCmd("bun add @clerk/nextjs") + CountCmd("bun add better-auth") <= 1
    /\ InstallsCompleted =>
          /\ CountCmd("bun add @clerk/nextjs")
                = (IF authOption = "clerk" THEN 1 ELSE 0)
          /\ CountCmd("bun add better-auth")
                = (IF authOption = "betterauth" THEN 1 ELSE 0)

C12_Witness ==
    /\ pc = "Done"
    /\ authOption = "clerk"
    /\ CountCmd("bun add @clerk/nextjs") = 1
    /\ CountCmd("bun add better-auth") = 0

(* C13: in a run that completes Installing the Redis client install was
   invoked iff useRedis and the monitoring install iff useSentry, no install
   twice in one directory, and when index.ts leaves its install block the
   monitoring install ran in each of api/ and app/ the template has. *)
C13_OptionalInstallsFollowOptions ==
    InstallsCompleted =>
        /\ ("bun add ioredis" \in Invoked) <=> useRedis
        /\ (Invoked \cap SentryInstallCommands # {}) <=> useSentry
        /\ \A c \in InstallCommands \ {"bun install"} :
              \A d \in {".", "api", "app"} : CountCmdIn(c, d) <= 1
        /\ (pc = "chdir_root" /\ useSentry) =>
              \A d \in {"api", "app"} \cap dirs :
                 \E c \in SentryInstallCommands : CountCmdIn(c, d) = 1

(* C14 as stated: two completed runs with the same options have the same set
   of written paths and the same content at each of them, whatever the
   fetched template contained: at Done the written paths and the content of
   the file at each of them are those the options determine. *)
C14_FileContentFunctionOfOptions ==
    pc = "Done" =>
        /\ DOMAIN written = DOMAIN ExpectedWritten
        /\ \A p \in DOMAIN written : files[p] = ExpectedWritten[p]

(* C14 amended: what the tool itself writes or appends at each path is a
   function of the options alone: in every run it is a part of the
   options-determined output (a prefix of it at each path), at Done it is
   exactly that output; the file at a written path holds that text, preceded,
   for an environment template that index.ts or part_002 appends to, by what
   the fetched template already contained. *)
C14_EmittedContentFunctionOfOptions ==
    /\ DOMAIN written \subseteq DOMAIN ExpectedWritten
    /\ \A p \in DOMAIN written : IsPrefix(written[p], ExpectedWritten[p])
    /\ pc = "Done" => written = ExpectedWritten
    /\ \A p \in DOMAIN written :
          \/ files[p] = written[p]
          \/ /\ variant \in {"index", "part_002"}
             /\ p \in EnvPaths
             /\ files[p] = TemplateEnvContent \o written[p]

C14_Witness ==
    /\ pc = "Done"
    /\ variant = "index"
    /\ useRedis /\ useSentry
    /\ written = ExpectedWritten
    /\ files["api/.env.example"]
          = TemplateEnvContent \o <<"REDIS_HOST", "REDIS_PORT", "SENTRY_DSN">>

(* C15: a project name rejected by validation keeps the run in Collecting:
   the step that rejects it stays at the name prompt with the error message
   set, answers nothing, mutates nothing and does not end the process; an
   error message is only ever shown at the name prompt (or left behind by a
   later cancel), never in a failed run. *)
C15_RejectedNameAsksAgain ==
    /\ [](validationError # "none"
            => /\ pc \in {"ask_name", "Cancelled"}
               /\ pc = "ask_name" => ~exited
               /\ err \in {"none", "ExitPromptError"}
               /\ NoMutation)
    /\ [][(pc = "ask_name" /\ validationError' # "none"
               /\ cancelledAt' = cancelledAt)
            => /\ pc' = "ask_name"
               /\ ~exited'
               /\ err' = "none"
               /\ UNCHANGED <<projectName, nameAnswered>>]_vars

C15_Witness ==
    /\ pc = "ask_name"
    /\ validationError = "exists"
    /\ NameDemo \in cwdEntries
    /\ ~nameAnswered
    /\ ~exited

(* C16: a fatal failure after the project directory was created removes
   nothing: the step into Failed keeps every created directory, every
   directory and file path of the project, everything the tool wrote so far
   and the git history, and a failed run that got past the clone still has
   its project directory. *)
C16_NoRollbackOnFailure ==
    /\ [][pc' = "Failed"
            => /\ created \subseteq created'
               /\ dirs \subseteq dirs'
               /\ DOMAIN files \subseteq DOMAIN files'
               /\ \A p \in DOMAIN written :
                     p \in DOMAIN written' /\ IsPrefix(written[p], written'[p])
               /\ gitHistory' = gitHistory]_vars
    /\ []((pc = "Failed" /\ Len(cmds) >= 2 /\ projectName \notin cwdEntries)
            => projectName \in created /\ "." \in dirs)

C16_Witness ==
    /\ pc = "Failed"
    /\ err = "write_sentry_app"
    /\ projectName \in created
    /\ "api/src/lib/sentry.ts" \in DOMAIN files
    /\ "api/src/lib/sentry.ts" \in DOMAIN written

(* C17: the stages run strictly in order: no install is invoked before the
   fetch and the history reset have completed or after the patcher has
   written anything, and the patcher writes or appends only once every
   install the run makes has completed. *)
C17_StagesInOrder ==
    /\ [][(cmds' # cmds /\ cmds'[Len(cmds')].cmd \in InstallCommands)
            => /\ gitHistory = "fresh"
               /\ written = NoFiles]_vars
    /\ [][written' # written => InstallsCompleted]_vars

(* C18: every file write of the patcher is preceded by the recursive creation
   of its missing parent directories: whatever the layout of the template,
   the parent directory of the path exists when a write step is reached, so
   no write fails for a missing parent. *)
C18_ParentDirsExistAtWrite ==
    pc \in WriteSteps => CanWrite(WriteTarget(pc))

(* C19: in a run that completes Installing the base install was invoked
   exactly once against the project root and, when the template has separate
   api/ and app/ subprojects, exactly once in each of them; a failing base
   install is fatal: the run is Failed and nothing is installed or written
   after it. *)
C19_BaseInstallRootAndSubprojects ==
    /\ InstallsCompleted => CountCmdIn("bun install", ".") = 1
    /\ (InstallsCompleted /\ written = NoFiles /\ {"api", "app"} \subseteq dirs
          /\ (variant = "index" => pc = "chdir_root"))
         => /\ CountCmdIn("bun install", "api") = 1
            /\ CountCmdIn("bun install", "app") = 1
    /\ err \in {"install", "api_install", "app_install"}
         => /\ pc = "Failed"
            /\ cmds[Len(cmds)].cmd = "bun install"
            /\ written = NoFiles

(* C20: external commands run one at a time and are never retried: a step
   invokes at most one command, a command is invoked only while no earlier
   one has failed, the commands already run are never reordered or dropped,
   and no command is invoked twice with the same arguments in the same
   working directory. *)
C20_CommandsSequentialNoRetry ==
    /\ [](\A i, j \in 1..Len(cmds) : cmds[i] = cmds[j] => i = j)
    /\ [][cmds' # cmds
            => /\ Len(cmds') = Len(cmds) + 1
               /\ SubSeq(cmds', 1, Len(cmds)) = cmds
               /\ err = "none"
               /\ ~exited]_vars
    /\ [](pc = "Failed" => err # "none")

C20_Witness ==
    /\ pc = "Done"
    /\ variant = "index"
    /\ Len(cmds) = 8
    /\ CountCmdIn("bun install", "api") = 1
    /\ CountCmdIn("bun install", "app") = 1

(* C21: in every run that reaches Installing the template was fetched into
   the project directory, its history was then removed and a fresh history
   then initialised, each exactly once and in that order; the history only
   ever goes none -> template -> none -> fresh, and no install step is
   reached or invoked unless the history is the fresh one. *)
C21_FetchResetInitInOrder ==
    /\ [](ReachedInstalling
            => /\ gitHistory = "fresh"
               /\ "." \in dirs
               /\ CountCmd("git clone") = 1
               /\ CountCmd("git init") = 1
               /\ FirstCmd("git clone") < FirstCmd("git init")
               /\ variant # "part_003"
                     => /\ CountCmd("rm -rf .git") = 1
                        /\ FirstCmd("git clone") < FirstCmd("rm -rf .git")
                        /\ FirstCmd("rm -rf .git") < FirstCmd("git init"))
    /\ [][gitHistory' # gitHistory
            => \/ /\ gitHistory = "none" /\ gitHistory' = "template"
                  /\ CountCmd("git clone") = 0
               \/ /\ gitHistory = "template" /\ gitHistory' = "none"
               \/ /\ gitHistory = "none" /\ gitHistory' = "fresh"
                  /\ CountCmd("git clone") = 1
                  /\ CountCmd("git init") = 0]_vars

C21_Witness ==
    /\ pc = "api_add_sentry"
    /\ gitHistory = "fresh"
    /\ cmds[1].cmd = "git clone"
    /\ cmds[2].cmd = "rm -rf .git"
    /\ cmds[3].cmd = "git init"
    /\ cmds[4] = [cmd |-> "bun install", cwd |-> "api"]

(* C22: the working directory is scoped and restored around installs: every
   install command ran in the directory it is meant for (the subproject for
   index.ts, the project root otherwise), the feature installs of index.ts
   are reached inside their subproject, and every patching and reporting
   step is reached with the working directory at the project root. *)
C22_WorkingDirectoryScoped ==
    /\ \A i \in 1..Len(cmds) :
          cmds[i].cmd \in InstallCommands
             => cmds[i].cwd \in InstallCwds(cmds[i].cmd)
    /\ pc \in {"api_add_redis", "api_add_sentry"} => cwd = "api"
    /\ pc = "app_add_sentry" => cwd = "app"
    /\ pc \in WriteSteps \cup {"mkdir_lib", "report"} => cwd = "."

C22_Witness ==
    /\ variant = "index"
    /\ pc = "write_redis"
    /\ cwd = "."
    /\ CountCmdIn("bun install", "api") = 1
    /\ CountCmdIn("bun install", "app") = 1

(* C23: the Reporting stage changes nothing but standard output: the report
   step is reached only with every patch write done, it leaves the files,
   directories, working directory, commands, git history, error output and
   answers unchanged, it ends in Done and never in Failed, and the output
   holds the Redis reminder exactly when useRedis is true and the Sentry
   reminder exactly when useSentry is true. *)
C23_ReportOnlyPrints ==
    /\ [](pc = "report" => written = ExpectedWritten /\ InstallsCompleted)
    /\ [][pc = "report"
            => /\ pc' = "Done"
               /\ stdout' # stdout
               /\ SubSeq(stdout', 1, Len(stdout)) = stdout
               /\ UNCHANGED <<optVars, promptVars, fsVars, cmds, cwd,
                              gitHistory, stderr, err>>]_vars
    /\ [](pc = "Done"
            => /\ (RangeOf(stdout) \cap RedisReminders # {}) <=> useRedis
               /\ (RangeOf(stdout) \cap SentryReminders # {}) <=> useSentry)

C23_Witness ==
    /\ pc = "Done"
    /\ useRedis /\ ~useSentry
    /\ "Redis setup" \in RangeOf(stdout)
    /\ "Sentry setup" \notin RangeOf(stdout)
    /\ written = ExpectedWritten

(* C24: a feature's module is written into a subproject only if the
   feature's package was installed in that subproject earlier in the run:
   the Redis module and the backend Sentry module under api/ only after the
   corresponding bun add ran in api/, the frontend Sentry module and DSN key
   under app/ only after the Sentry package was added in app/. *)
C24_ModuleOnlyAfterInstallInSubproject ==
    /\ "api/src/lib/redis.ts" \in DOMAIN written
          => CountCmdIn("bun add ioredis", "api") = 1
    /\ "api/src/lib/sentry.ts" \in DOMAIN written
          => CountCmdIn("bun add @sentry/node @sentry/bun", "api") = 1
    /\ DOMAIN written \cap {"app/src/lib/sentry.ts", "app/.env.example"} # {}
          => CountCmdIn("bun add @sentry/react", "app") = 1

(* C25: a run that ends without reaching Done never exits with status 0,
   whether it ended on a cancelled prompt, on an error raised while the
   options were collected, or on a failure of a later stage. *)
C25_NonDoneNeverExitsZero ==
    (exited /\ pc \in {"Cancelled", "Failed"}) => exitCode # 0

(* C26: every run terminates: provided each prompt is eventually answered
   with an accepted value or cancelled and each command returns, the run
   eventually ends (Done, Failed, or the cancelled end of Collecting) with
   the process exited, and once ended it takes no further step. *)
C26_EveryRunTerminates ==
    /\ <>(pc \in {"Done", "Failed", "Cancelled"} /\ exited)
    /\ [][(pc \in {"Done", "Failed", "Cancelled"}) => (vars' = vars)]_vars

C26_Witness ==
    /\ pc = "Done"
    /\ exited
    /\ variant = "part_003"
    /\ authOption = "clerk"
    /\ useRedis /\ useSentry
    /\ Len(cmds) = 7

====
